---- MODULE Spec2Model ----
(***************************************************************************)
(* Three Bells (src/api/index.js): the log / RMP handlers over the Log and *)
(* Rmp tables, the balance of the dashboard and the timer of its page.     *)
(* Hours are kept in hundredths of an hour (every stored value is the      *)
(* result of cleanNum), timestamps in minutes, ids are the values of a     *)
(* fresh-id counter standing for gen_random_uuid().                        *)
(***************************************************************************)
EXTENDS Integers, Sequences, FiniteSets, TLC

\* ------------------------------------------------------------------ bounds
MaxLogs == 3          \* Log rows ever created (ids 1..MaxLogs)
MaxRmps == 2          \* Rmp rows ever created (ids 1..MaxRmps)
MaxPending == 2       \* submit-unit requests between their read and their transaction
MaxFault == 5         \* a transaction's writes, any one of which may throw
MaxClock == 6         \* the latest reading of Date.now()

\* ------------------------------------------------------- program constants
Quota == 300          \* "needed = 3", "totalHours >= 3", in hundredths
MaxHours == 24        \* isValidNumber(manualHours, 0, 24); hours > 24
MinutesPerDay == 1440 \* end.setDate(end.getDate() + 1)
Noon == 720           \* new Date(`${workDate}T12:00:00`)

Null == 0             \* rmpId: null
NullNote == "null"    \* note: null
BadId == -1           \* a request parameter that is no UUID
NoFault == 0          \* no write of the transaction throws

\* ------------------------------------------------------------ input sets
Users == {"A", "B"}
BadDate == -1                       \* a workDate / filedDate that fails isValidDate
BadManual == 25000                  \* manualHours above 24
NoTime == -1                        \* startTime / endTime left empty
NoManual == 0                       \* manualHours left empty
FiledDates == {10}
RecentDate == 730000                \* a filedDate in a year after 0099
Faults == 1..MaxFault               \* which write of a transaction throws
FloatErrs == {-1, 0, 1}             \* rounding error of a sum of doubles, in thousandths

\* request bodies of /api/add and /api/update: workDate is a day number,
\* startTime and endTime are minutes of the day, manualHours is in
\* thousandths of an hour.
ManualBody(w, h, n) ==
  [workDate |-> w, startTime |-> NoTime, endTime |-> NoTime, manualHours |-> h, note |-> n]
TimedBody(w, s, e, n) ==
  [workDate |-> w, startTime |-> s, endTime |-> e, manualHours |-> NoManual, note |-> n]

GoodBodies ==
  { ManualBody(1, 1500, ""),
    ManualBody(2, 5000, "a"),
    TimedBody(1, 720, 810, "") }    \* 12:00 to 13:30 on day 1
BadTime == 1440                     \* "24:00", which fails isValidTime
BadBodies ==
  { ManualBody(BadDate, 1500, ""),
    ManualBody(1, BadManual, ""),
    ManualBody(1, -1000, ""),
    TimedBody(1, 720, NoTime, ""),
    TimedBody(1, BadTime, 810, ""),
    TimedBody(BadDate, 720, 810, "") }
\* manual hours given together with a start time that is no time of day:
\* getTimes returns from the manual branch and never looks at the times
ManualWithTimes ==
  [workDate |-> 2, startTime |-> BadTime, endTime |-> NoTime, manualHours |-> 5000,
   note |-> "a"]
Bodies == GoodBodies \cup BadBodies

VARIABLES logs, rmps, nextLogId, nextRmpId, pending, last, timer, now, origin
vars == <<logs, rmps, nextLogId, nextRmpId, pending, last, timer, now, origin>>

\* the server's part of the state and the dashboard page's part
server == <<logs, rmps, nextLogId, nextRmpId, pending, last>>
page == <<timer, now>>

\* ----------------------------------------------------------------- helpers
\* Math.round(n * 100) / 100 of the rational n / d, as hundredths.
cleanNum(n, d) == (200 * n + d) \div (2 * d)

isValidUUID(id) == id > 0
isValidDate(d) == d >= 0
isValidTime(t) == t >= 0 /\ t < MinutesPerDay
\* the upper limit left out
isValidNumberNoMax(val, min, max) == val >= min * 1000

\* manualHours in thousandths of an hour
isValidNumber(val, min, max) == val >= min * 1000 /\ val <= max * 1000

RECURSIVE SumHours(_, _)
SumHours(db, S) ==
  IF S = {} THEN 0
  ELSE LET x == CHOOSE y \in S : TRUE IN db[x].hours + SumHours(db, S \ {x})

Unbundled(db, u) == {i \in DOMAIN db : db[i].userId = u /\ db[i].rmpId = Null}
InRmp(db, r) == {i \in DOMAIN db : db[i].rmpId = r}
OfUser(db, u) == {i \in DOMAIN db : db[i].userId = u}

\* getTimes: the parsed entry, or ok = FALSE where the code throws.
getTimes(body) ==
  LET processedNote == IF body.note = "" THEN NullNote ELSE body.note
      bad == [ok |-> FALSE, hours |-> 0, start |-> 0, end |-> 0, note |-> NullNote]
  IN
  IF ~isValidDate(body.workDate) THEN bad
  ELSE IF body.manualHours # NoManual THEN
    IF ~isValidNumber(body.manualHours, 0, MaxHours) THEN bad
    ELSE LET d == body.workDate * MinutesPerDay + Noon IN
         [ok |-> TRUE, hours |-> cleanNum(body.manualHours, 1000),
          start |-> d, end |-> d, note |-> processedNote]
  ELSE IF body.startTime = NoTime \/ body.endTime = NoTime THEN bad
  ELSE IF ~isValidTime(body.startTime) \/ ~isValidTime(body.endTime) THEN bad
  ELSE
    LET start == body.workDate * MinutesPerDay + body.startTime
        end0 == body.workDate * MinutesPerDay + body.endTime
        end == IF end0 < start THEN end0 + MinutesPerDay ELSE end0
        hours == cleanNum(end - start, 60)
    IN IF hours < 0 \/ hours > MaxHours * 100 THEN bad
       ELSE [ok |-> TRUE, hours |-> hours, start |-> start, end |-> end,
             note |-> processedNote]

\* findMany({ where: { userId, rmpId: null }, orderBy: { start: "asc" } }):
\* every order of the matching rows that ascends in start; rows with equal
\* start come back in an order the store chooses.
Snapshot(db, i) ==
  [id |-> i, hours |-> db[i].hours, start |-> db[i].start, end |-> db[i].end,
   note |-> db[i].note]

RECURSIVE OrderByStart(_, _)
OrderByStart(db, S) ==
  IF S = {} THEN {<<>>}
  ELSE UNION {{<<Snapshot(db, x)>> \o t : t \in OrderByStart(db, S \ {x})} :
                x \in {y \in S : \A z \in S : db[y].start <= db[z].start}}

\* the rows in any order at all
findManyAnyOrder(db, u) ==
  LET S == Unbundled(db, u) IN
  {[k \in 1..Cardinality(S) |-> Snapshot(db, f[k])] :
     f \in {g \in [1..Cardinality(S) -> S] : \A x \in S : \E k \in DOMAIN g : g[k] = x}}

findManyUnbundled(db, u) == OrderByStart(db, Unbundled(db, u))

RECURSIVE totalHours(_, _)
totalHours(earned, k) ==
  IF k > Len(earned) THEN 0 ELSE earned[k].hours + totalHours(earned, k + 1)

\* let timerState = { status: 'idle', startTime: null, elapsedMs: 0, pausedMs: 0 }
\* and let timerInterval = null; times are in milliseconds, and startTime is
\* kept as the milliseconds its ISO string (which has millisecond precision)
\* parses back to.  disabled holds the disabled property of the three
\* buttons, as the HTML of the page sets it, saved the item timerState of
\* localStorage (no item, or the one saved state) and form the times the
\* stop button has put into the entry form (none, or the start and the end).
idleTimer ==
  [status |-> "idle", startTime |-> Null, elapsedMs |-> 0, pausedMs |-> 0,
   interval |-> FALSE,
   disabled |-> [startBtn |-> FALSE, pauseBtn |-> TRUE, stopBtn |-> TRUE],
   saved |-> <<>>, form |-> <<>>]

Init ==
  /\ logs = <<>>
  /\ rmps = <<>>
  /\ nextLogId = 1
  /\ nextRmpId = 1
  /\ pending = <<>>
  /\ last = [op |-> "init", user |-> "A", id |-> 0, status |-> 0, rows |-> <<>>]
  /\ timer = idleTimer
  /\ now = 1
  /\ origin = <<>>

\* The request handled last and its response: op the route, user the
\* authenticated user, id the :id parameter (for a submit that created an
\* Rmp, the id of that Rmp; for an add, the id of the created Log), status
\* the HTTP status, rows the ids of the rows findMany returned, in its order.
\* A committed rmp/delete also notes, as hoursBefore, the hours of all the
\* user's rows when the request arrived.
Resp(op, u, id, status) ==
  [op |-> op, user |-> u, id |-> id, status |-> status, rows |-> <<>>]
RespRows(op, u, id, status, rows) ==
  [op |-> op, user |-> u, id |-> id, status |-> status,
   rows |-> [k \in 1..Len(rows) |-> rows[k].id]]
\* ... of a request that carried req.body / req.body.filedDate
WithBody(resp, body) == resp @@ [body |-> body]
WithDate(resp, filedDate) == resp @@ [filedDate |-> filedDate]

\* POST /api/add
Add(u, body) ==
  LET data == getTimes(body) IN
  /\ nextLogId <= MaxLogs
  /\ IF ~data.ok
     THEN /\ last' = WithBody(Resp("add", u, 0, 400), body)
          /\ UNCHANGED <<logs, nextLogId>>
     ELSE /\ logs' = [i \in DOMAIN logs \cup {nextLogId} |->
                        IF i = nextLogId
                        THEN [userId |-> u, hours |-> data.hours, start |-> data.start,
                              end |-> data.end, note |-> data.note, rmpId |-> Null]
                        ELSE logs[i]]
          /\ nextLogId' = nextLogId + 1
          /\ last' = WithBody(Resp("add", u, nextLogId, 302), body)
  /\ UNCHANGED <<rmps, nextRmpId, pending, timer, now>>

\* ------------------------------------------------------ POST /api/submit-unit
\* Dates are day numbers counted from 0000-01-01.  Date.UTC takes a year
\* from 0 to 99 as 1900 + year: a date of the years 0000 to 0099 comes out
\* 1900 years later (0000-02-29 as 1900-03-01, as 1900 has no leap day).
FirstCenturyDays == 36525
CenturyShift == 693961
LeapDayOfYearZero == 59

\* const [year, month, day] = req.body.filedDate.split("-").map(Number);
\* const filedDate = new Date(Date.UTC(year, month - 1, day))
DateUTC(d) ==
  IF d >= FirstCenturyDays THEN d
  ELSE IF d <= LeapDayOfYearZero THEN d + CenturyShift
  ELSE d + CenturyShift - 1

\* the template literal's prefix, U+2022 and a space; the bullet character is
\* written as an asterisk here
Bullet == "* "

\* Array.prototype.join from element k on, each element after the separator
RECURSIVE JoinTail(_, _, _)
JoinTail(arr, k, sep) ==
  IF k > Len(arr) THEN "" ELSE sep \o arr[k] \o JoinTail(arr, k + 1, sep)

\* First pass of the transaction: the notes of the logs that will be bundled.
RECURSIVE bundledNotes(_, _, _)
bundledNotes(earned, k, needed) ==
  IF k > Len(earned) \/ needed <= 0 THEN <<>>
  ELSE LET log == earned[k]
           rest == bundledNotes(earned, k + 1,
                     IF log.hours <= needed THEN cleanNum(needed - log.hours, 100) ELSE 0)
       IN IF log.note # NullNote THEN <<log.note>> \o rest ELSE rest

\* The ids of the rows the first pass looks at before it breaks.
RECURSIVE Scanned(_, _, _)
Scanned(earned, k, needed) ==
  IF k > Len(earned) \/ needed <= 0 THEN {}
  ELSE LET log == earned[k] IN
       {log.id} \cup Scanned(earned, k + 1,
                    IF log.hours <= needed THEN cleanNum(needed - log.hours, 100) ELSE 0)

\* the bullets left out
bulletListPlain(n) ==
  IF Len(n) = 0 THEN NullNote
  ELSE IF Len(n) = 1 THEN n[1]
  ELSE n[1] \o JoinTail(n, 2, "\n")

\* bundledNotes.length > 0 ? bundledNotes.map((n) => `<bullet> ${n}`).join("\n") : null
bulletList(n) ==
  IF Len(n) = 0 THEN NullNote
  ELSE IF Len(n) = 1 THEN Bullet \o n[1]
  ELSE Bullet \o n[1] \o JoinTail([k \in 1..Len(n) |-> Bullet \o n[k]], 2, "\n")

\* tx.log.update({ where: { id } }) throws when the row is gone.
RowExists(db, id) == id \in DOMAIN db

\* prisma.$transaction(async (tx) => ...): st.db is the Log table as the
\* callback has written it so far, st.writes the writes it has made, st.fault
\* the write that throws (NoFault: none), st.ok turns FALSE at the throw.
Throws(st) == st.fault # NoFault /\ st.writes + 1 = st.fault
Wrote(st, db) == [st EXCEPT !.db = db, !.writes = @ + 1]
Thrown(st) == [st EXCEPT !.ok = FALSE]

\* what the callback wrote before the throw stays
TxCommitPartial(before, st) == st.db

\* the callback's writes are committed when it returns and rolled back when
\* it throws
TxCommit(before, st) == IF st.ok THEN st.db ELSE before

\* const remainder = cleanNum(log.hours - needed)
SplitRemainder(log, needed) == cleanNum(log.hours - needed, 100)

\* the split row keeps all of its hours
SplitHoursWhole(log, needed) == log.hours

\* data: { hours: needed, rmpId: rmp.id } of the split row
SplitHours(log, needed) == needed

\* the created row loses the note
SplitRowNoNote(u, log, remainder) ==
  [userId |-> u, hours |-> remainder, start |-> log.start, end |-> log.end,
   note |-> NullNote, rmpId |-> Null]

\* tx.log.create({ data: { userId, hours: remainder, start, end, note } })
SplitRow(u, log, remainder) ==
  [userId |-> u, hours |-> remainder, start |-> log.start, end |-> log.end,
   note |-> log.note, rmpId |-> Null]

\* tx.log.update({ where: { id: log.id }, data: { rmpId: rmp.id } })
AssignWhole(db, log, rmpId) == [db EXCEPT ![log.id].rmpId = rmpId]

\* Second pass: the allocation loop over the fetched rows; st.next is the
\* next fresh Log id.
RECURSIVE Allocate(_, _, _, _, _, _)
Allocate(earned, k, needed, u, rmpId, st) ==
  IF k > Len(earned) \/ needed <= 0 \/ ~st.ok THEN st
  ELSE
    LET log == earned[k] IN
    IF ~RowExists(st.db, log.id) \/ Throws(st) THEN Thrown(st)
    ELSE IF log.hours <= needed THEN
      Allocate(earned, k + 1, cleanNum(needed - log.hours, 100), u, rmpId,
               Wrote(st, AssignWhole(st.db, log, rmpId)))
    ELSE
      LET remainder == SplitRemainder(log, needed)
          upd == [st.db EXCEPT ![log.id].hours = SplitHours(log, needed),
                               ![log.id].rmpId = rmpId]
          created == [i \in DOMAIN upd \cup {st.next} |->
                        IF i = st.next THEN SplitRow(u, log, remainder) ELSE upd[i]]
          st1 == Wrote(st, upd)
      IN IF Throws(st1) THEN Thrown(st1)
         ELSE Allocate(earned, k + 1, 0, u, rmpId,
                       [Wrote(st1, created) EXCEPT !.next = st.next + 1])

\* The number of Log rows the allocation loop creates for the fetched rows.
RECURSIVE Splits(_, _, _)
Splits(earned, k, needed) ==
  IF k > Len(earned) \/ needed <= 0 THEN 0
  ELSE IF earned[k].hours <= needed
       THEN Splits(earned, k + 1, cleanNum(needed - earned[k].hours, 100))
       ELSE 1

\* any hours at all pass the test
HasQuotaAny(earned) == totalHours(earned, 1) > 0

\* if (totalHours >= 3)
HasQuota(earned) == totalHours(earned, 1) >= Quota

\* The handler from the totalHours test on, for the rows `earned` it fetched;
\* tx.rmp.create is the first write of the transaction.
SubmitTx(u, filedDate, earned, fault) ==
  IF HasQuota(earned)
  THEN
    LET notes == bulletList(bundledNotes(earned, 1, Quota))
        rmp == [userId |-> u, filedDate |-> DateUTC(filedDate), status |-> "submitted",
                notes |-> notes]
        begun == [db |-> logs, next |-> nextLogId, ok |-> TRUE, writes |-> 0,
                  fault |-> fault]
        st == IF Throws(begun) THEN Thrown(begun)
              ELSE Allocate(earned, 1, Quota, u, nextRmpId, Wrote(begun, logs))
    IN
    /\ nextRmpId <= MaxRmps
    /\ nextLogId + Splits(earned, 1, Quota) <= MaxLogs + 1
    /\ logs' = TxCommit(logs, st)
    /\ IF st.ok
       THEN /\ rmps' = [r \in DOMAIN rmps \cup {nextRmpId} |->
                          IF r = nextRmpId THEN rmp ELSE rmps[r]]
            /\ nextLogId' = st.next
            /\ nextRmpId' = nextRmpId + 1
            /\ last' = WithDate(RespRows("submit", u, nextRmpId, 302, earned), filedDate)
       ELSE \* a write threw: the transaction rolls back, the catch answers 400
            /\ last' = WithDate(Resp("submit", u, 0, 400), filedDate)
            /\ UNCHANGED <<rmps, nextLogId, nextRmpId>>
  ELSE
    /\ last' = WithDate(Resp("submit", u, 0, 302), filedDate)
    /\ UNCHANGED <<logs, rmps, nextLogId, nextRmpId>>

SubmitWrite(u, filedDate, earned) == SubmitTx(u, filedDate, earned, NoFault)

\* A whole request, run with no other request in between, in which write
\* number `fault` of the transaction throws.
SubmitFaulty(u, filedDate, fault) ==
  /\ IF ~isValidDate(filedDate)
     THEN /\ last' = WithDate(Resp("submit", u, 0, 400), filedDate)
          /\ UNCHANGED <<logs, rmps, nextLogId, nextRmpId>>
     ELSE \E earned \in findManyUnbundled(logs, u) : SubmitTx(u, filedDate, earned, fault)
  /\ UNCHANGED <<pending, timer, now>>

\* A whole request in which no write throws.
Submit(u, filedDate) == SubmitFaulty(u, filedDate, NoFault)

\* the where clause without rmpId: null
OwnAnyRow(db, id, u) == {i \in DOMAIN db : i = id /\ db[i].userId = u}

\* where: { id, userId: req.user.id, rmpId: null }
OwnUnlocked(db, id, u) ==
  {i \in DOMAIN db : i = id /\ db[i].userId = u /\ db[i].rmpId = Null}

\* the owner check left out
IsOwnerAny(rmp, u) == TRUE

\* rmp.userId !== req.user.id
IsOwner(rmp, u) == rmp.userId = u

\* POST /api/update/:id
Update(u, id, body) ==
  /\ IF ~isValidUUID(id) THEN
       /\ last' = WithBody(Resp("update", u, id, 400), body)
       /\ UNCHANGED logs
     ELSE LET data == getTimes(body) IN
       IF ~data.ok THEN
         /\ last' = WithBody(Resp("update", u, id, 400), body)
         /\ UNCHANGED logs
       ELSE
         \* updateMany({ where: { id, userId, rmpId: null }, data })
         LET hit == OwnUnlocked(logs, id, u) IN
         /\ logs' = [i \in DOMAIN logs |->
                       IF i \in hit
                       THEN [logs[i] EXCEPT !.hours = data.hours, !.start = data.start,
                                            !.end = data.end, !.note = data.note]
                       ELSE logs[i]]
         /\ last' = WithBody(Resp("update", u, id, IF hit = {} THEN 404 ELSE 302), body)
  /\ UNCHANGED <<rmps, nextLogId, nextRmpId, pending, timer, now>>

\* POST /api/delete/:id
Delete(u, id) ==
  /\ IF ~isValidUUID(id) THEN
       /\ last' = Resp("delete", u, id, 400)
       /\ UNCHANGED logs
     ELSE
       \* deleteMany({ where: { id, userId, rmpId: null } })
       LET hit == OwnUnlocked(logs, id, u) IN
       /\ logs' = [i \in DOMAIN logs \ hit |-> logs[i]]
       /\ last' = Resp("delete", u, id, IF hit = {} THEN 404 ELSE 302)
  /\ UNCHANGED <<rmps, nextLogId, nextRmpId, pending, timer, now>>

\* the status is set to paid whatever it was
ToggledStatusPaid(rmp) == "paid"

\* data: { status: rmp.status === "paid" ? "submitted" : "paid" }
ToggledStatus(rmp) == IF rmp.status = "paid" THEN "submitted" ELSE "paid"

\* POST /api/rmp/toggle-paid/:id
TogglePaid(u, id) ==
  /\ IF ~isValidUUID(id) THEN
       /\ last' = Resp("toggle", u, id, 400)
       /\ UNCHANGED rmps
     ELSE IF id \notin DOMAIN rmps THEN
       /\ last' = Resp("toggle", u, id, 404)
       /\ UNCHANGED rmps
     ELSE IF ~IsOwner(rmps[id], u) THEN
       /\ last' = Resp("toggle", u, id, 403)
       /\ UNCHANGED rmps
     ELSE
       /\ rmps' = [rmps EXCEPT ![id].status = ToggledStatus(rmps[id])]
       /\ last' = Resp("toggle", u, id, 302)
  /\ UNCHANGED <<logs, nextLogId, nextRmpId, pending, timer, now>>

\* ------------------------------------------------------------------ GET /api
\* prisma.log.aggregate({ where: { userId, rmpId: null }, _sum: { hours: true } }):
\* null without a matching row, else the sum of the doubles, in thousandths
\* of an hour, off by the rounding error err of the additions.
aggregateSum(db, u, err) ==
  IF Unbundled(db, u) = {} THEN Null
  ELSE 10 * SumHours(db, Unbundled(db, u)) + err

\* const earnedHours = cleanNum(unbundledHours._sum.hours || 0), in hundredths
earnedHours(sum) == cleanNum(IF sum = Null THEN 0 ELSE sum, 1000)

\* rounded up
availableRMPsCeil(earned) == (earned + Quota - 1) \div Quota

\* const availableRMPs = Math.floor(earnedHours / 3)
availableRMPs(earned) == earned \div Quota

\* The balance part of the dashboard request; a sum of fewer than two doubles
\* has no rounding error.
Dashboard(u, err) ==
  LET earned == earnedHours(aggregateSum(logs, u, err)) IN
  /\ Cardinality(Unbundled(logs, u)) < 2 => err = 0
  /\ last' = [op |-> "dashboard", user |-> u, id |-> 0, status |-> 200, rows |-> <<>>,
              earnedHours |-> earned, availableRMPs |-> availableRMPs(earned)]
  /\ UNCHANGED <<logs, rmps, nextLogId, nextRmpId, pending, timer, now>>

\* ---------------------------------------------------- POST /api/rmp/delete/:id
\* ON DELETE CASCADE: the rows of the Rmp go with it
CascadeOnDelete(db, r) == [i \in {j \in DOMAIN db : db[j].rmpId # r} |-> db[i]]

\* Log_rmpId_fkey ... ON DELETE SET NULL
SetNullOnDelete(db, r) ==
  [i \in DOMAIN db |-> IF db[i].rmpId = r THEN [db[i] EXCEPT !.rmpId = Null] ELSE db[i]]

RemoveAt(arr, j) == [k \in 1..(Len(arr) - 1) |-> IF k < j THEN arr[k] ELSE arr[k + 1]]

\* only the start compared
SameIntervalStartOnly(a, b) == a.start = b.start

\* a.start.getTime() === b.start.getTime() && a.end.getTime() === b.end.getTime()
SameInterval(a, b) == a.start = b.start /\ a.end = b.end

\* data: { hours: cleanNum(a.hours + b.hours) }
MergedHours(a, b) == cleanNum(a.hours + b.hours, 100)

\* The consolidation loop: arr is the fetched array `logs` (rows as they were
\* when fetched), i the loop index (from 1), st the transaction.
RECURSIVE Consolidate(_, _, _)
Consolidate(arr, i, st) ==
  IF i > Len(arr) - 1 \/ ~st.ok THEN st
  ELSE
    LET a == arr[i]
        b == arr[i + 1]
    IN
    IF SameInterval(a, b)
    THEN
      LET st1 == Wrote(st, [st.db EXCEPT ![a.id].hours = MergedHours(a, b)])
          st2 == Wrote(st1, [k \in DOMAIN st1.db \ {b.id} |-> st1.db[k]])
      IN IF Throws(st) THEN Thrown(st)
         ELSE IF Throws(st1) THEN Thrown(st1)
         ELSE Consolidate(RemoveAt(arr, i + 1), i, st2)
    ELSE Consolidate(arr, i + 1, st)

\* The handler from prisma.$transaction on, in which write number `fault`
\* throws; tx.rmp.delete is the first write, and it throws as well when the
\* Rmp is gone.
DeleteBundleTx(u, id, fault) ==
  LET begun == [db |-> logs, next |-> nextLogId, ok |-> TRUE, writes |-> 0,
                fault |-> fault]
      unlocked == SetNullOnDelete(logs, id)
  IN
  IF Throws(begun) \/ id \notin DOMAIN rmps THEN
    /\ logs' = TxCommit(logs, Thrown(begun))
    /\ last' = Resp("rmpDelete", u, id, 500)
    /\ UNCHANGED rmps
  ELSE
    \E arr \in findManyUnbundled(unlocked, u) :
      LET st == Consolidate(arr, 1, Wrote(begun, unlocked)) IN
      /\ logs' = TxCommit(logs, st)
      /\ IF st.ok
         THEN /\ rmps' = [r \in DOMAIN rmps \ {id} |-> rmps[r]]
              /\ last' = RespRows("rmpDelete", u, id, 302, arr) @@
                          [hoursBefore |-> SumHours(logs, OfUser(logs, u))]
         ELSE \* the transaction rolls back, the catch answers 500
              /\ last' = Resp("rmpDelete", u, id, 500)
              /\ UNCHANGED rmps

\* The whole request, run with no other request in between.
DeleteBundleFaulty(u, id, fault) ==
  /\ IF ~isValidUUID(id) THEN
       /\ last' = Resp("rmpDelete", u, id, 400)
       /\ UNCHANGED <<logs, rmps>>
     ELSE IF id \notin DOMAIN rmps THEN
       /\ last' = Resp("rmpDelete", u, id, 404)
       /\ UNCHANGED <<logs, rmps>>
     ELSE IF ~IsOwner(rmps[id], u) THEN
       /\ last' = Resp("rmpDelete", u, id, 403)
       /\ UNCHANGED <<logs, rmps>>
     ELSE DeleteBundleTx(u, id, fault)
  /\ UNCHANGED <<nextLogId, nextRmpId, pending, timer, now>>

\* The whole request in which no write throws.
DeleteBundle(u, id) == DeleteBundleFaulty(u, id, NoFault)

\* The handler up to `await prisma.log.findMany(...)`: the request now holds
\* the rows it read, and other requests run before its transaction does.
SubmitRead(u, filedDate) ==
  /\ Len(pending) < MaxPending
  /\ isValidDate(filedDate)
  /\ \E earned \in findManyUnbundled(logs, u) :
       pending' = Append(pending, [user |-> u, filedDate |-> filedDate, earned |-> earned])
  /\ last' = Resp("read", u, 0, 0)
  /\ UNCHANGED <<logs, rmps, nextLogId, nextRmpId, timer, now>>

\* The rest of that handler, on the rows it read earlier.
SubmitCommit(k) ==
  /\ k \in 1..Len(pending)
  /\ SubmitWrite(pending[k].user, pending[k].filedDate, pending[k].earned)
  /\ pending' = RemoveAt(pending, k)
  /\ UNCHANGED page

\* A toggle-paid or rmp/delete handler up to its `await prisma.rmp.findUnique`
\* and the two tests on the result, which it passed: the request now holds
\* the Rmp it read, and other requests run before it writes.
RmpFind(op, u, id) ==
  /\ Len(pending) < MaxPending
  /\ isValidUUID(id) /\ id \in DOMAIN rmps /\ IsOwner(rmps[id], u)
  /\ pending' = Append(pending, [op |-> op, user |-> u, id |-> id,
                                  status |-> rmps[id].status])
  /\ last' = Resp("read", u, id, 0)
  /\ UNCHANGED <<logs, rmps, nextLogId, nextRmpId, timer, now>>

\* The rest of toggle-paid: prisma.rmp.update({ where: { id: rmp.id } })
\* throws when the Rmp is gone, and the catch answers 500.
ToggleUpdate(k) ==
  /\ k \in 1..Len(pending) /\ pending[k].op = "toggle"
  /\ LET req == pending[k] IN
     IF req.id \in DOMAIN rmps
     THEN /\ rmps' = [rmps EXCEPT ![req.id].status = ToggledStatus(req)]
          /\ last' = Resp("toggle", req.user, req.id, 302)
     ELSE /\ last' = Resp("toggle", req.user, req.id, 500)
          /\ UNCHANGED rmps
  /\ pending' = RemoveAt(pending, k)
  /\ UNCHANGED <<logs, nextLogId, nextRmpId, timer, now>>

\* The rest of rmp/delete: its transaction.
DeleteBundleCommit(k) ==
  /\ k \in 1..Len(pending) /\ pending[k].op = "rmpDelete"
  /\ DeleteBundleTx(pending[k].user, pending[k].id, NoFault)
  /\ pending' = RemoveAt(pending, k)
  /\ UNCHANGED <<nextLogId, nextRmpId, timer, now>>

\* ------------------------------------------------- the dashboard page's timer
\* Date.now() moves on.
ClockTick ==
  /\ now < MaxClock
  /\ now' = now + 1
  /\ UNCHANGED <<timer, server>>

\* the stop button is left enabled on an idle timer
updateUIStopEnabled(t) ==
  IF t.status = "idle" THEN [startBtn |-> FALSE, pauseBtn |-> TRUE, stopBtn |-> FALSE]
  ELSE IF t.status = "running" THEN [startBtn |-> TRUE, pauseBtn |-> FALSE, stopBtn |-> FALSE]
  ELSE IF t.status = "paused" THEN [startBtn |-> FALSE, pauseBtn |-> TRUE, stopBtn |-> FALSE]
  ELSE t.disabled

\* updateUI: the disabled properties it leaves the buttons with
updateUI(t) ==
  IF t.status = "idle" THEN [startBtn |-> FALSE, pauseBtn |-> TRUE, stopBtn |-> TRUE]
  ELSE IF t.status = "running" THEN [startBtn |-> TRUE, pauseBtn |-> FALSE, stopBtn |-> FALSE]
  ELSE IF t.status = "paused" THEN [startBtn |-> FALSE, pauseBtn |-> TRUE, stopBtn |-> FALSE]
  ELSE t.disabled

\* the object timerState of the page t
StateOf(t) ==
  [status |-> t.status, startTime |-> t.startTime, elapsedMs |-> t.elapsedMs,
   pausedMs |-> t.pausedMs]

\* localStorage.setItem('timerState', JSON.stringify(timerState))
saveTimerState(t) == [t EXCEPT !.saved = <<StateOf(t)>>]

\* the callback of setInterval(..., 100) in startInterval
IntervalFire ==
  /\ timer.interval
  /\ timer' = saveTimerState([timer EXCEPT !.elapsedMs = now - timer.startTime])
  /\ UNCHANGED <<now, server>>

\* the start time is left as it was
ResumeStartKept(t, at) == t.startTime

\* timerState.startTime = new Date(now - timerState.elapsedMs).toISOString()
ResumeStart(t, at) == at - t.elapsedMs

\* startBtn click
StartClick ==
  /\ LET t1 == IF timer.status = "idle"
               THEN [timer EXCEPT !.startTime = now, !.elapsedMs = 0, !.status = "running"]
               ELSE IF timer.status = "paused"
               THEN [timer EXCEPT !.startTime = ResumeStart(timer, now),
                                  !.status = "running"]
               ELSE timer
         t2 == [t1 EXCEPT !.interval = TRUE]
     IN timer' = saveTimerState([t2 EXCEPT !.disabled = updateUI(t2)])
  /\ UNCHANGED <<now, server>>

\* pauseBtn click
PauseClick ==
  /\ timer' =
       IF timer.status = "running"
       THEN LET t1 == [timer EXCEPT !.status = "paused", !.pausedMs = now,
                                    !.interval = FALSE]
            IN saveTimerState([t1 EXCEPT !.disabled = updateUI(t1)])
       ELSE timer
  /\ UNCHANGED <<now, server>>

\* resetTimer: the state is set back, updateUI, saveTimerState
resetTimer(t) ==
  LET t1 == [t EXCEPT !.status = "idle", !.startTime = Null, !.elapsedMs = 0,
                      !.pausedMs = 0]
  IN saveTimerState([t1 EXCEPT !.disabled = updateUI(t1)])

\* stopBtn click: stopInterval, the form is filled in, resetTimer,
\* localStorage.removeItem('timerState')
StopClick ==
  /\ LET startDate == timer.startTime
         endDate == startDate + timer.elapsedMs
         filled == [timer EXCEPT !.interval = FALSE,
                                 !.form = <<[start |-> startDate, end |-> endDate]>>]
     IN timer' = [resetTimer(filled) EXCEPT !.saved = <<>>]
  /\ UNCHANGED <<now, server>>

\* The page is loaded again: a new timerState, no interval, the buttons as
\* the HTML has them, then loadTimerState on what localStorage holds.
PageLoad ==
  /\ LET fresh == [idleTimer EXCEPT !.saved = timer.saved] IN
     timer' =
       IF timer.saved = <<>> THEN fresh
       ELSE LET s == timer.saved[1]
                t1 == [fresh EXCEPT !.status = s.status, !.startTime = s.startTime,
                                    !.elapsedMs = s.elapsedMs, !.pausedMs = s.pausedMs]
            IN IF s.status = "running"
               THEN LET t2 == [t1 EXCEPT !.elapsedMs = now - s.startTime,
                                         !.interval = TRUE]
                    IN [t2 EXCEPT !.disabled = updateUI(t2)]
               ELSE IF s.status = "paused"
               THEN [t1 EXCEPT !.disabled = updateUI(t1)]
               ELSE t1
  /\ UNCHANGED <<now, server>>

\* ------------------------------------------------------------ specifications
\* The bundling core: one user's well-formed requests on the rows that exist.
Next ==
  \/ \E body \in GoodBodies : Add("A", body) /\ UNCHANGED origin
  \/ \E id \in DOMAIN logs : \E body \in GoodBodies : Update("A", id, body) /\ UNCHANGED origin
  \/ \E id \in DOMAIN logs : Delete("A", id) /\ UNCHANGED origin
  \/ \E d \in FiledDates : Submit("A", d) /\ UNCHANGED origin
  \/ \E id \in DOMAIN rmps : DeleteBundle("A", id) /\ UNCHANGED origin

Spec == Init /\ [][Next]_vars

\* Every handler, for two users, each on every row that exists (its own and
\* the other user's).
IsoBodies == {ManualBody(2, 5000, "a")}

NextAll ==
  \/ \E u \in Users : \E body \in IsoBodies : Add(u, body) /\ UNCHANGED origin
  \/ \E u \in Users : \E id \in DOMAIN logs : \E body \in IsoBodies :
       Update(u, id, body) /\ UNCHANGED origin
  \/ \E u \in Users : \E id \in DOMAIN logs : Delete(u, id) /\ UNCHANGED origin
  \/ \E u \in Users : \E d \in FiledDates : Submit(u, d) /\ UNCHANGED origin
  \/ \E u \in Users : \E id \in DOMAIN rmps : TogglePaid(u, id) /\ UNCHANGED origin
  \/ \E u \in Users : \E id \in DOMAIN rmps : DeleteBundle(u, id) /\ UNCHANGED origin

SpecAll == Init /\ [][NextAll]_vars

\* One user's submit-unit requests with their awaits interleaved: entries are
\* added, then requests read and run their transactions in any order.
ConcBodies == {ManualBody(1, 1500, ""), ManualBody(2, 5000, "a")}

NextConc ==
  \/ \E body \in ConcBodies : pending = <<>> /\ Add("A", body) /\ UNCHANGED origin
  \/ \E d \in FiledDates : SubmitRead("A", d) /\ UNCHANGED origin
  \/ \E k \in 1..MaxPending : SubmitCommit(k) /\ UNCHANGED origin

SpecConc == Init /\ [][NextConc]_vars

\* One user's requests in which a write of the submit-unit or rmp/delete
\* transaction may throw (a fault past the last write lets it commit).
NextTx ==
  \/ \E body \in ConcBodies : Add("A", body) /\ UNCHANGED origin
  \/ \E d \in FiledDates : \E f \in Faults : SubmitFaulty("A", d, f) /\ UNCHANGED origin
  \/ \E id \in DOMAIN rmps : \E f \in Faults : DeleteBundleFaulty("A", id, f) /\ UNCHANGED origin

SpecTx == Init /\ [][NextTx]_vars

\* Two users adding and bundling entries and opening the dashboard.
NextView ==
  \/ \E u \in Users : \E body \in GoodBodies : Add(u, body) /\ UNCHANGED origin
  \/ \E u \in Users : \E d \in FiledDates : Submit(u, d) /\ UNCHANGED origin
  \/ \E u \in Users : \E err \in FloatErrs : Dashboard(u, err) /\ UNCHANGED origin

SpecView == Init /\ [][NextView]_vars

\* One user's requests with entries of up to the 24 hours getTimes accepts.
LongBodies == {ManualBody(1, 24000, ""), ManualBody(1, 1500, "")}

NextLong ==
  \/ \E body \in LongBodies : Add("A", body) /\ UNCHANGED origin
  \/ \E id \in DOMAIN logs : \E body \in LongBodies : Update("A", id, body) /\ UNCHANGED origin
  \/ \E id \in DOMAIN logs : Delete("A", id) /\ UNCHANGED origin
  \/ \E d \in FiledDates : Submit("A", d) /\ UNCHANGED origin
  \/ \E id \in DOMAIN rmps : DeleteBundle("A", id) /\ UNCHANGED origin

SpecLong == Init /\ [][NextLong]_vars

\* One user's requests, well-formed and malformed: bodies, filing dates and
\* ids that fail validation, next to ones that pass.
ValBodies == {ManualBody(2, 5000, "a"), ManualWithTimes} \cup BadBodies

NextVal ==
  \/ \E body \in ValBodies : Add("A", body) /\ UNCHANGED origin
  \/ \E id \in DOMAIN logs \cup {BadId} : \E body \in ValBodies :
       Update("A", id, body) /\ UNCHANGED origin
  \/ \E id \in DOMAIN logs \cup {BadId} : Delete("A", id) /\ UNCHANGED origin
  \/ \E d \in FiledDates \cup {BadDate} : Submit("A", d) /\ UNCHANGED origin
  \/ \E id \in DOMAIN rmps \cup {BadId} : TogglePaid("A", id) /\ UNCHANGED origin
  \/ \E id \in DOMAIN rmps \cup {BadId} : DeleteBundle("A", id) /\ UNCHANGED origin

SpecVal == Init /\ [][NextVal]_vars

\* The timer of one dashboard page.  A button is clicked only while it is
\* not disabled.
NextTimer ==
  \/ ClockTick /\ UNCHANGED origin
  \/ IntervalFire /\ UNCHANGED origin
  \/ ~timer.disabled.startBtn /\ StartClick /\ UNCHANGED origin
  \/ ~timer.disabled.pauseBtn /\ PauseClick /\ UNCHANGED origin
  \/ ~timer.disabled.stopBtn /\ StopClick /\ UNCHANGED origin
  \/ PageLoad /\ UNCHANGED origin

SpecTimer == Init /\ [][NextTimer]_vars

\* One submit-unit request of a user between its findMany and its
\* transaction, while the same user's other requests run to completion.
EditBodies == {ManualBody(2, 5000, "a")}

NextEdit ==
  \/ \E body \in ConcBodies : Add("A", body) /\ UNCHANGED origin
  \/ \E id \in DOMAIN logs : \E body \in EditBodies :
       Update("A", id, body) /\ UNCHANGED origin
  \/ \E id \in DOMAIN logs : Delete("A", id) /\ UNCHANGED origin
  \/ \E id \in DOMAIN rmps : DeleteBundle("A", id) /\ UNCHANGED origin
  \/ \E d \in FiledDates : pending = <<>> /\ SubmitRead("A", d) /\ UNCHANGED origin
  \/ \E k \in 1..MaxPending : SubmitCommit(k) /\ UNCHANGED origin

SpecEdit == Init /\ [][NextEdit]_vars

\* One user's entries with and without notes, bundled and unbundled.
NoteBodies ==
  {ManualBody(1, 1500, "a"), ManualBody(1, 1500, ""), ManualBody(1, 2000, "c"),
   ManualBody(2, 2000, "b")}

NextBundle ==
  \/ \E body \in NoteBodies : Add("A", body) /\ UNCHANGED origin
  \/ \E id \in DOMAIN logs : \E body \in EditBodies :
       Update("A", id, body) /\ UNCHANGED origin
  \/ \E d \in FiledDates : Submit("A", d) /\ UNCHANGED origin
  \/ \E id \in DOMAIN rmps : DeleteBundle("A", id) /\ UNCHANGED origin

SpecBundle == Init /\ [][NextBundle]_vars

\* The same requests with filing dates of the years 0000 to 0099 and of later
\* years.
NextFiled ==
  \/ \E body \in NoteBodies : Add("A", body) /\ UNCHANGED origin
  \/ \E id \in DOMAIN logs : \E body \in EditBodies :
       Update("A", id, body) /\ UNCHANGED origin
  \/ \E d \in FiledDates \cup {RecentDate} : Submit("A", d) /\ UNCHANGED origin
  \/ \E id \in DOMAIN rmps : DeleteBundle("A", id) /\ UNCHANGED origin

SpecFiled == Init /\ [][NextFiled]_vars

\* One user's timed and manual entries: an end before the start, an end at
\* the start, an end after the start.
TimeBodies ==
  {TimedBody(1, 1380, 60, ""), TimedBody(1, 540, 540, ""), TimedBody(1, 720, 810, ""),
   ManualBody(1, 1500, "")}

NextTimes ==
  \/ \E body \in TimeBodies : Add("A", body) /\ UNCHANGED origin
  \/ \E id \in DOMAIN logs : \E body \in TimeBodies :
       Update("A", id, body) /\ UNCHANGED origin
  \/ \E id \in DOMAIN logs : Delete("A", id) /\ UNCHANGED origin

SpecTimes == Init /\ [][NextTimes]_vars

\* One user's requests on ids that resolve and ids that do not, one
\* toggle-paid or rmp/delete request at a time between its findUnique and its
\* write while the other requests run to completion.
AnyLogId == 1..(MaxLogs + 1)
AnyRmpId == 1..(MaxRmps + 1)

NextGone ==
  \/ \E body \in EditBodies : Add("A", body) /\ UNCHANGED origin
  \/ \E id \in AnyLogId : \E body \in EditBodies :
       Update("A", id, body) /\ UNCHANGED origin
  \/ \E id \in AnyLogId : Delete("A", id) /\ UNCHANGED origin
  \/ \E d \in FiledDates : Submit("A", d) /\ UNCHANGED origin
  \/ \E id \in AnyRmpId : TogglePaid("A", id) /\ UNCHANGED origin
  \/ \E id \in AnyRmpId : DeleteBundle("A", id) /\ UNCHANGED origin
  \/ \E id \in AnyRmpId : \E op \in {"toggle", "rmpDelete"} :
       pending = <<>> /\ RmpFind(op, "A", id) /\ UNCHANGED origin
  \/ \E k \in 1..MaxPending : ToggleUpdate(k) /\ UNCHANGED origin
  \/ \E k \in 1..MaxPending : DeleteBundleCommit(k) /\ UNCHANGED origin

SpecGone == Init /\ [][NextGone]_vars

\* History of the Log rows: origin[i] is the row created by /api/add that
\* row i is, or was split from (through any number of splits).  A step that
\* creates a row is an add or a submit-unit whose allocation loop split the
\* one row it moved into the new Rmp with fewer hours.
SplitSource ==
  CHOOSE e \in DOMAIN logs \cap DOMAIN logs' :
    logs[e].rmpId = Null /\ logs'[e].rmpId # Null /\ logs'[e].hours < logs[e].hours

TrackOrigin ==
  origin' = [j \in DOMAIN logs' |->
               IF j \in DOMAIN logs THEN origin[j]
               ELSE IF last'.op = "add" THEN j
               ELSE origin[SplitSource]]

\* One user's adds, submits and bundle deletions, with the history of the
\* rows kept.
NextSrc ==
  \/ \E body \in GoodBodies : Add("A", body) /\ TrackOrigin
  \/ \E d \in FiledDates : Submit("A", d) /\ TrackOrigin
  \/ \E id \in DOMAIN rmps : DeleteBundle("A", id) /\ TrackOrigin

SpecSrc == Init /\ [][NextSrc]_vars

\* ------------------------------------------------------------------ claims
UserHours(db, u) == SumHours(db, OfUser(db, u))
NewLogs == DOMAIN logs' \ DOMAIN logs
NewRmps == DOMAIN rmps' \ DOMAIN rmps
SamePair(db, i, j) == db[i].start = db[j].start /\ db[i].end = db[j].end

\* The hours of the rows before position p of the fetched order `rows`.
RECURSIVE HoursBefore(_, _, _)
HoursBefore(db, rows, p) ==
  IF p <= 1 THEN 0 ELSE db[rows[p - 1]].hours + HoursBefore(db, rows, p - 1)

\* C1 (as claimed): a submit-bundle step and a delete-bundle step leave the
\* sum of hours over all of each user's LogEntries exactly unchanged.
C1_Conservation ==
  [][last'.op \in {"submit", "rmpDelete"} =>
       \A u \in Users : UserHours(logs', u) = UserHours(logs, u)]_vars

\* C2: whenever a submit-bundle request creates a Bundle, the hours of the
\* LogEntries whose bundleId is the new Bundle's id sum to exactly 3.00 when
\* the request completes.
C2_ExactQuota ==
  [][last'.op = "submit" =>
       \A r \in NewRmps : SumHours(logs', InRmp(logs', r)) = Quota]_vars

\* a Bundle just created from two LogEntries
C2_Witness ==
  /\ last.op = "submit" /\ last.status = 302
  /\ last.id \in DOMAIN rmps
  /\ Cardinality(InRmp(logs, last.id)) >= 2

\* C4: a submit-bundle request issued when the requester's unbundled hours sum
\* to less than 3.0 creates no Bundle, creates no LogEntry, changes no field of
\* any LogEntry and is answered with the redirect.
C4_NoOpBelowThreshold ==
  [][(last'.op = "submit" /\ SumHours(logs, Unbundled(logs, last'.user)) < Quota) =>
       /\ logs' = logs
       /\ rmps' = rmps
       /\ nextLogId' = nextLogId
       /\ last'.status = 302]_vars

\* a submit answered with the redirect while the user holds unbundled hours
\* short of 3.0 and nothing was bundled
C4_Witness ==
  /\ last.op = "submit" /\ last.status = 302 /\ last.id = 0
  /\ Unbundled(logs, last.user) # {}
  /\ SumHours(logs, Unbundled(logs, last.user)) > 0
  /\ SumHours(logs, Unbundled(logs, last.user)) < Quota

\* C5: when the allocator reaches an unbundled entry whose hours h exceed the
\* remaining need n > 0, that entry is assigned to the new Bundle with hours n
\* and exactly one new unbundled LogEntry of the same user is created, with
\* hours h - n and the start, end and note of the original.
C5_SplitCorrect ==
  [][(last'.op = "submit" /\ last'.status = 302) =>
       \A p \in 1..Len(last'.rows) :
         LET e == last'.rows[p]
             n == Quota - HoursBefore(logs, last'.rows, p)
             h == logs[e].hours
         IN (n > 0 /\ h > n) =>
              /\ e \in DOMAIN logs'
              /\ logs'[e] = [logs[e] EXCEPT !.hours = n, !.rmpId = last'.id]
              /\ last'.id \in NewRmps
              /\ Cardinality(NewLogs) = 1
              /\ \A j \in NewLogs :
                   logs'[j] = [userId |-> last'.user, hours |-> h - n,
                               start |-> logs[e].start, end |-> logs[e].end,
                               note |-> logs[e].note, rmpId |-> Null]]_vars

\* a lone 5.0-hour entry was just split into a bundled 3.0 and an unbundled 2.0
C5_Witness ==
  /\ last.op = "submit" /\ last.status = 302 /\ last.id \in DOMAIN rmps
  /\ \E i, j \in DOMAIN logs :
       /\ DOMAIN logs = {i, j} /\ i # j
       /\ last.rows = <<i>>
       /\ logs[i].rmpId = last.id /\ logs[i].hours = 300
       /\ logs[j].rmpId = Null /\ logs[j].hours = 200
       /\ SamePair(logs, i, j) /\ logs[i].note = logs[j].note
       /\ logs[j].note # NullNote

\* The user's rows that are unbundled once Bundle r is gone.
FreedBy(db, u, r) == Unbundled(db, u) \cup InRmp(db, r)

\* C6 (as claimed): two entries with identical start and identical end that
\* are bundled together (no third entry of the user sharing their start and
\* end): after the Bundle is deleted exactly one of the two remains, it is
\* unbundled, and its hours are the sum of the two.
C6_MergeOnDelete ==
  [][(last'.op = "rmpDelete" /\ last'.status = 302) =>
       \A e1, e2 \in InRmp(logs, last'.id) :
         (/\ e1 # e2
          /\ SamePair(logs, e1, e2)
          /\ \A f \in FreedBy(logs, last'.user, last'.id) \ {e1, e2} :
               ~SamePair(logs, e1, f)) =>
           \E keep \in {e1, e2} :
             /\ DOMAIN logs' \cap {e1, e2} = {keep}
             /\ logs'[keep].rmpId = Null
             /\ logs'[keep].hours = logs[e1].hours + logs[e2].hours]_vars

\* C7: if the entries of a Bundle have pairwise-distinct (start, end) pairs
\* that no other unbundled entry of the user shares, deleting the Bundle
\* returns each of them to bundleId null with its hours unchanged and deletes
\* none; and consolidation never merges entries that differ in start or end:
\* a row it removes, and a row whose hours it changes, has a row with the
\* identical start and end on the other side of the merge.
C7_NoMergeOfDistinct ==
  [][(last'.op = "rmpDelete" /\ last'.status = 302) =>
       LET freed == FreedBy(logs, last'.user, last'.id) IN
       /\ (\A e \in InRmp(logs, last'.id) : \A f \in freed \ {e} : ~SamePair(logs, e, f))
            => \A e \in InRmp(logs, last'.id) :
                 e \in DOMAIN logs' /\ logs'[e] = [logs[e] EXCEPT !.rmpId = Null]
       /\ \A b \in DOMAIN logs \ DOMAIN logs' :
            \E a \in (DOMAIN logs' \cap freed) \ {b} :
              SamePair(logs, a, b) /\ logs'[a].hours # logs[a].hours
       /\ \A a \in DOMAIN logs' \cap DOMAIN logs :
            logs'[a].hours # logs[a].hours =>
              \E b \in (freed \ DOMAIN logs') : SamePair(logs, a, b)]_vars

\* a Bundle of two 1.5-hour entries with equal start and different end was
\* just deleted, and both are back, unbundled and unmerged
C7_Witness ==
  /\ last.op = "rmpDelete" /\ last.status = 302
  /\ Len(last.rows) = 2
  /\ DOMAIN logs = {last.rows[1], last.rows[2]}
  /\ rmps = <<>>
  /\ logs[last.rows[1]].hours = 150 /\ logs[last.rows[2]].hours = 150
  /\ logs[last.rows[1]].start = logs[last.rows[2]].start
  /\ logs[last.rows[1]].end # logs[last.rows[2]].end

\* C9: an update-log or delete-log request whose id names a LogEntry with
\* non-null bundleId is answered 404 and leaves that LogEntry present, with
\* its hours, start, end, note and bundleId unchanged.
C9_LockedImmutable ==
  [][(/\ last'.op \in {"update", "delete"}
      /\ last'.id \in DOMAIN logs
      /\ logs[last'.id].rmpId # Null) =>
       /\ last'.status = 404
       /\ last'.id \in DOMAIN logs'
       /\ logs'[last'.id] = logs[last'.id]]_vars

\* an update of a locked entry was just refused
C9_Witness ==
  /\ last.op = "update" /\ last.status = 404
  /\ last.id \in DOMAIN logs
  /\ logs[last.id].rmpId # Null
  /\ logs[last.id].rmpId \in DOMAIN rmps

\* a delete of a locked entry was just refused
C9_WitnessDelete ==
  /\ last.op = "delete" /\ last.status = 404
  /\ last.id \in DOMAIN logs
  /\ logs[last.id].rmpId # Null

\* C3: in every reachable state of sequentially executed add, update, delete,
\* submit-bundle, delete-bundle and toggle-paid requests, the LogEntries
\* pointing at each existing Bundle have hours that sum to exactly 3.00.
C3_BundlesHoldQuota ==
  \A r \in DOMAIN rmps : SumHours(logs, InRmp(logs, r)) = Quota

\* a paid Bundle holds the 3.0-hour part of a split entry, whose remainder is
\* unbundled beside it
C3_Witness ==
  \E r \in DOMAIN rmps :
    /\ rmps[r].status = "paid"
    /\ \E i \in InRmp(logs, r) : \E j \in Unbundled(logs, rmps[r].userId) :
         logs[i].hours = Quota /\ SamePair(logs, i, j)

\* C8: a request issued with one user's identity leaves every LogEntry and
\* every Bundle owned by a different user unchanged and undeleted, whatever
\* id the request carries.
C8_OwnershipIsolation ==
  [][\A a \in Users \ {last'.user} :
       /\ \A i \in OfUser(logs, a) : i \in DOMAIN logs' /\ logs'[i] = logs[i]
       /\ \A r \in DOMAIN rmps :
            rmps[r].userId = a => r \in DOMAIN rmps' /\ rmps'[r] = rmps[r]]_vars

\* B's delete-bundle request carrying the id of A's Bundle was just refused
C8_Witness ==
  /\ last.op = "rmpDelete" /\ last.user = "B" /\ last.status = 403
  /\ last.id \in DOMAIN rmps
  /\ rmps[last.id].userId = "A"
  /\ InRmp(logs, last.id) # {}

\* C10 (as claimed): when submit-bundle requests of one user interleave, no
\* state is persisted in which a Bundle's LogEntries total other than 3.0
\* hours, a Bundle has no LogEntries, or an entry has been split twice (the
\* transactions add no hours to the user's total).
C10_SubmitsSerialize ==
  [][last'.op = "submit" =>
       /\ \A r \in DOMAIN rmps' :
            InRmp(logs', r) # {} /\ SumHours(logs', InRmp(logs', r)) = Quota
       /\ \A u \in Users : UserHours(logs', u) = UserHours(logs, u)]_vars

\* C11: a submit-bundle or delete-bundle request is all or nothing.  Either
\* it is answered with the redirect and its whole effect is persisted (the
\* new Bundle with entries totalling 3.0 hours, or nothing below the
\* threshold; the Bundle gone and no entry referencing it), or a write of its
\* transaction failed, it is answered with an error status, and the Log and
\* Rmp tables and the ids still to be given out are exactly as before, so
\* that the same request issued again starts from the state of the first
\* attempt.
C11_AllOrNothing ==
  [][last'.op \in {"submit", "rmpDelete"} =>
       \/ /\ last'.op = "submit" /\ last'.status = 302
          /\ \/ /\ NewRmps = {last'.id}
                /\ SumHours(logs', InRmp(logs', last'.id)) = Quota
                /\ \A r \in DOMAIN rmps : r \in DOMAIN rmps' /\ rmps'[r] = rmps[r]
             \/ UNCHANGED <<logs, rmps, nextLogId, nextRmpId>>
       \/ /\ last'.op = "rmpDelete" /\ last'.status = 302
          /\ DOMAIN rmps' = DOMAIN rmps \ {last'.id}
          /\ InRmp(logs', last'.id) = {}
       \/ /\ last'.status \in {400, 403, 404, 500}
          /\ UNCHANGED <<logs, rmps, nextLogId, nextRmpId>>]_vars

\* a submit whose transaction threw: it is answered 400 and the user's
\* unbundled hours, 3.0 or more, are all still unbundled
C11_Witness ==
  /\ last.op = "submit" /\ last.status = 400
  /\ SumHours(logs, Unbundled(logs, "A")) >= Quota
  /\ \E i \in Unbundled(logs, "A") : logs[i].hours > Quota

\* a delete-bundle whose transaction threw: it is answered 500, the Bundle
\* is still there and still holds its entries
C11_WitnessDelete ==
  /\ last.op = "rmpDelete" /\ last.status = 500
  /\ last.id \in DOMAIN rmps
  /\ SumHours(logs, InRmp(logs, last.id)) = Quota

\* C12: the dashboard's unbundled hours equal the sum of hours over exactly
\* the requesting user's LogEntries with bundleId null (0 when there are
\* none), its available bundles are the floor of that sum over 3, and
\* computing them changes no LogEntry and no Bundle.
C12_Balance ==
  [][last'.op = "dashboard" =>
       LET mine == {i \in DOMAIN logs :
                      logs[i].userId = last'.user /\ logs[i].rmpId = Null}
           h == last'.earnedHours
           a == last'.availableRMPs
       IN /\ h = SumHours(logs, mine)
          /\ mine = {} => h = 0
          /\ a \in Nat /\ Quota * a <= h /\ h < Quota * (a + 1)
          /\ logs' = logs /\ rmps' = rmps]_vars

\* the dashboard of a user whose 5.0-hour entry was split into a bundled 3.0
\* and an unbundled 2.0, while the other user holds unbundled hours too: 2.0
\* hours, no bundle available
C12_Witness ==
  /\ last.op = "dashboard"
  /\ last.earnedHours = 200 /\ last.availableRMPs = 0
  /\ \E i \in OfUser(logs, last.user) : logs[i].rmpId # Null /\ logs[i].hours = Quota
  /\ \E v \in Users \ {last.user} : Unbundled(logs, v) # {}

\* the dashboard of a user with unbundled entries of 5.0 and 1.5 hours: two
\* bundles are available
C12_WitnessTwo ==
  /\ last.op = "dashboard"
  /\ last.earnedHours = 650 /\ last.availableRMPs = 2
  /\ Cardinality(Unbundled(logs, last.user)) = 2

\* C13 (as claimed): a submit-bundle request that directly follows the
\* deletion of a Bundle by the same user creates a new Bundle whose
\* LogEntries total exactly 3.0 hours, and the user's hours over all
\* LogEntries are then what they were before the deletion.
C13_DeleteThenResubmit ==
  [][(/\ last.op = "rmpDelete" /\ last.status = 302
      /\ last'.op = "submit" /\ last'.user = last.user) =>
       /\ last'.status = 302
       /\ NewRmps = {last'.id}
       /\ SumHours(logs', InRmp(logs', last'.id)) = Quota
       /\ UserHours(logs', last.user) = last.hoursBefore]_vars

\* C14: after a delete-bundle request commits, no LogEntry references the
\* deleted Bundle, and every LogEntry that referenced it either still exists
\* with bundleId null or is gone because it was merged into a surviving
\* unbundled entry of the user with the identical start and end (which now
\* holds more hours than before); none is removed along with the Bundle row.
C14_UnlockNeverDeletes ==
  [][(last'.op = "rmpDelete" /\ last'.status = 302) =>
       /\ InRmp(logs', last'.id) = {}
       /\ \A e \in InRmp(logs, last'.id) :
            \/ e \in DOMAIN logs' /\ logs'[e].rmpId = Null
            \/ /\ e \notin DOMAIN logs'
               /\ \E a \in (DOMAIN logs \cap DOMAIN logs') \ {e} :
                    /\ logs'[a].userId = last'.user /\ logs'[a].rmpId = Null
                    /\ SamePair(logs, a, e)
                    /\ logs'[a].start = logs[a].start /\ logs'[a].end = logs[a].end
                    /\ logs'[a].hours > logs[a].hours]_vars

\* the Bundle held the 3.0-hour part (row 1) of a split entry; deleting it
\* merged row 1 into the remainder (row 2), which now holds the 5.0 hours
C14_Witness ==
  /\ last.op = "rmpDelete" /\ last.status = 302
  /\ last.rows = <<2, 1>>
  /\ DOMAIN logs = {2}
  /\ logs[2].rmpId = Null /\ logs[2].hours = 500

\* the Bundle held two entries of different start or end; both are back,
\* unbundled
C14_WitnessKept ==
  /\ last.op = "rmpDelete" /\ last.status = 302
  /\ Len(last.rows) = 2 /\ DOMAIN logs = {last.rows[1], last.rows[2]}
  /\ ~SamePair(logs, last.rows[1], last.rows[2])
  /\ \A i \in DOMAIN logs : logs[i].rmpId = Null

\* C15 (as claimed): in every reachable state, after any sequence of add,
\* update, delete, submit-bundle and delete-bundle requests, the hours of
\* every LogEntry are non-negative, a multiple of 0.01 (a natural number of
\* hundredths) and at most 24.
C15_HoursBound ==
  \A i \in DOMAIN logs : logs[i].hours \in Nat /\ logs[i].hours <= MaxHours * 100

\* A body whose work date is no date, whose manual hours lie outside [0, 24],
\* or which, giving no manual hours, has a start or end that is missing or
\* is no time of day.
InvalidBody(body) ==
  \/ body.workDate = BadDate
  \/ body.manualHours # NoManual /\
       (body.manualHours < 0 \/ body.manualHours > MaxHours * 1000)
  \/ body.manualHours = NoManual /\
       (\/ body.startTime \notin 0..(MinutesPerDay - 1)
        \/ body.endTime \notin 0..(MinutesPerDay - 1))

C16_WitnessDate ==
  /\ last.op = "submit" /\ last.status = 400 /\ last.filedDate = BadDate
  /\ SumHours(logs, Unbundled(logs, "A")) >= Quota

\* a delete-bundle with a malformed id was refused while a Bundle exists
C16_WitnessId ==
  /\ last.op = "rmpDelete" /\ last.status = 400 /\ last.id = BadId
  /\ rmps # <<>>

\* an update of an existing unbundled entry with a start of "24:00" and no
\* manual hours was refused
C16_WitnessTime ==
  /\ last.op = "update" /\ last.status = 400
  /\ last.id \in DOMAIN logs /\ logs[last.id].rmpId = Null
  /\ last.body.manualHours = NoManual /\ last.body.startTime = BadTime

\* C17: while the timer is paused its elapsedMs stays what it was at the
\* pause, and when start is clicked on a paused timer the elapsed time
\* computed from the adjusted startTime (Date.now() - startTime) equals that
\* elapsedMs, however long the timer was paused: the time spent paused is
\* not added.
C17_PauseResume ==
  [][/\ (timer.status = "paused" /\ timer'.status = "paused") =>
          timer'.elapsedMs = timer.elapsedMs
     /\ (timer.status = "paused" /\ timer'.status = "running") =>
          /\ now' - timer'.startTime = timer.elapsedMs
          /\ timer'.elapsedMs = timer.elapsedMs]_vars

\* a timer that ran, was paused for at least 2 ms and has just been resumed:
\* its start time was moved forward
C17_Witness ==
  /\ timer.status = "running"
  /\ timer.elapsedMs > 0
  /\ now - timer.startTime = timer.elapsedMs
  /\ timer.pausedMs > 0
  /\ now >= timer.pausedMs + 2
  /\ timer.startTime >= timer.pausedMs - timer.elapsedMs + 2

\* The rows freed by deleting Bundle r that share the start and end of row e.
SameAs(db, u, r, e) == {f \in FreedBy(db, u, r) : SamePair(db, e, f)}

\* C18 (as claimed): when a delete-bundle leaves k >= 3 unbundled entries of
\* the user that all share one start and one end, consolidation leaves
\* exactly one of them, and its hours are the sum of the hours of all k.
C18_MultiFragmentMerge ==
  [][(last'.op = "rmpDelete" /\ last'.status = 302) =>
       \A e \in FreedBy(logs, last'.user, last'.id) :
         LET G == SameAs(logs, last'.user, last'.id, e) IN
         Cardinality(G) >= 3 =>
           \E keep \in G :
             /\ DOMAIN logs' \cap G = {keep}
             /\ logs'[keep].hours = SumHours(logs, G)]_vars

\* C19 (as claimed): after a delete-bundle request commits, the user has no
\* two unbundled LogEntries with identical start and identical end, whatever
\* order the store returned for entries whose start values tie.
C19_NoDuplicateFragments ==
  [][(last'.op = "rmpDelete" /\ last'.status = 302) =>
       \A i, j \in Unbundled(logs', last'.user) :
         i # j => ~SamePair(logs', i, j)]_vars

\* The row that took the merge of the row at position q of the fetched order
\* `rows`: the nearest row before it that is still there.
RECURSIVE MergedInto(_, _, _)
MergedInto(db, rows, q) ==
  IF q <= 1 THEN rows[1]
  ELSE IF rows[q - 1] \in DOMAIN db THEN rows[q - 1]
  ELSE MergedInto(db, rows, q - 1)

\* C20 (as claimed): whenever delete-bundle merges two LogEntries, both
\* descend, through allocator splits, from the same originally added
\* LogEntry; entries created by separate add requests are never merged.
C20_MergesOneSource ==
  [][(last'.op = "rmpDelete" /\ last'.status = 302) =>
       \A q \in 1..Len(last'.rows) :
         last'.rows[q] \notin DOMAIN logs' =>
           origin[MergedInto(logs', last'.rows, q)] = origin[last'.rows[q]]]_vars

\* C21 (as claimed): in every step, also of interleaved requests, a LogEntry
\* whose bundleId is non-null before the step is still there after it with
\* its hours, start, end, note and bundleId unchanged, unless the step is the
\* deletion of the Bundle it points at.
C21_LockLifetime ==
  [][\A i \in DOMAIN logs :
       logs[i].rmpId # Null =>
         \/ i \in DOMAIN logs' /\ logs'[i] = logs[i]
         \/ /\ last'.op = "rmpDelete" /\ last'.status = 302
            /\ last'.id = logs[i].rmpId]_vars

\* C22 (as claimed): when other requests of the user (add, update, delete,
\* delete-bundle) commit between a submit's read of the unbundled entries
\* and its transaction, the transaction either changes nothing, or creates
\* one Bundle whose LogEntries total exactly 3.0 hours.  (The claim adds
\* that the user's total hours are then those of a serial execution; the
\* part stated here already fails.)
C22_SubmitIsolated ==
  [][last'.op = "submit" =>
       \/ UNCHANGED <<logs, rmps>>
       \/ /\ NewRmps = {last'.id}
          /\ SumHours(logs', InRmp(logs', last'.id)) = Quota]_vars

\* C23: the rows a submit-unit moves into the Rmp it creates are a prefix of
\* the rows findMany returned, which are all the user's unbundled rows in
\* ascending start; no row left unbundled starts strictly before a row of
\* the new Rmp, and only the last row of the prefix has its hours changed.
Bundled == InRmp(logs', last'.id)
RowSet(rows) == {rows[k] : k \in 1..Len(rows)}

C23_OldestFirstPrefix ==
  [][(last'.op = "submit" /\ NewRmps # {}) =>
       LET rows == last'.rows IN
       /\ RowSet(rows) = Unbundled(logs, last'.user)
       /\ \A k \in 1..(Len(rows) - 1) : logs[rows[k]].start <= logs[rows[k + 1]].start
       /\ \E m \in 1..Len(rows) :
            /\ Bundled = {rows[k] : k \in 1..m}
            /\ \A k \in 1..m : logs'[rows[k]].hours # logs[rows[k]].hours => k = m
       /\ \A i \in Unbundled(logs', last'.user) : \A j \in Bundled :
            logs'[i].start >= logs'[j].start]_vars

\* a Rmp of two whole rows was created and a row that starts later is left
C23_Witness ==
  /\ last.op = "submit" /\ last.id \in DOMAIN rmps
  /\ Cardinality(InRmp(logs, last.id)) = 2
  /\ SumHours(logs, InRmp(logs, last.id)) = Quota
  /\ \E i \in Unbundled(logs, "A") : \A j \in InRmp(logs, last.id) :
       logs[i].start > logs[j].start /\ logs[j].hours = 150

\* the last row of the prefix was split
C23_WitnessSplit ==
  /\ last.op = "submit" /\ last.id \in DOMAIN rmps
  /\ Len(last.rows) = 2
  /\ logs[last.rows[1]].hours = 150 /\ logs[last.rows[2]].hours = 150
  /\ \E i \in Unbundled(logs, "A") : logs[i].hours = 50 /\ SamePair(logs, i, last.rows[2])

\* C24: the notes of the Rmp a submit-unit creates are the non-empty notes of
\* the rows it moves into that Rmp, in the order findMany returned them, each
\* prefixed with the bullet and joined with newlines, and null when no such
\* row has a note; the rows the notes pass looks at are the rows moved.
RECURSIVE ExpectedNotes(_, _, _)
ExpectedNotes(db, ids, k) ==
  IF k = Len(ids) THEN Bullet \o db[ids[k]].note
  ELSE Bullet \o db[ids[k]].note \o "\n" \o ExpectedNotes(db, ids, k + 1)

Fetched(rows) == [k \in 1..Len(rows) |-> Snapshot(logs, rows[k])]

C24_BundleNotes ==
  [][(last'.op = "submit" /\ NewRmps # {}) =>
       LET rows == last'.rows
           noted == SelectSeq(rows, LAMBDA i : i \in Bundled /\ logs'[i].note # NullNote)
       IN /\ rmps'[last'.id].notes =
               IF Len(noted) = 0 THEN NullNote ELSE ExpectedNotes(logs', noted, 1)
          /\ Scanned(Fetched(rows), 1, Quota) = Bundled]_vars

\* two rows with notes, the second one split, under either order of a tie
C24_Witness ==
  /\ last.op = "submit" /\ last.id \in DOMAIN rmps
  /\ rmps[last.id].notes = "* c\n* a"
  /\ \E i \in Unbundled(logs, "A") : logs[i].note = "a" /\ logs[i].hours = 50

\* a row without a note is skipped
C24_WitnessSkip ==
  /\ last.op = "submit" /\ last.id \in DOMAIN rmps
  /\ rmps[last.id].notes = "* b"
  /\ \E i \in InRmp(logs, last.id) : logs[i].note = NullNote

\* no row of the Rmp has a note
C24_WitnessNull ==
  /\ last.op = "submit" /\ last.id \in DOMAIN rmps
  /\ rmps[last.id].notes = NullNote
  /\ Cardinality(InRmp(logs, last.id)) = 2

\* The Log rows over a submit-unit that creates a Rmp: at most one row is
\* created, the hours of at most one row change (the last row moved, and only
\* when a row is created), every row moved keeps its other fields, and the
\* rows already in a Rmp and the rows not moved stay as they were.
C25_FrameOfLogs ==
  /\ Cardinality(NewLogs) <= 1
  /\ DOMAIN logs \subseteq DOMAIN logs'
  /\ Cardinality({i \in DOMAIN logs : logs'[i].hours # logs[i].hours}) <= 1
  /\ \A i \in DOMAIN logs :
       /\ logs'[i].hours # logs[i].hours =>
            /\ NewLogs # {}
            /\ i = last'.rows[Cardinality(Bundled)]
       /\ i \in Bundled =>
            logs'[i] = [logs[i] EXCEPT !.rmpId = last'.id, !.hours = logs'[i].hours]
       /\ (logs[i].rmpId # Null \/ i \notin Bundled) => logs'[i] = logs[i]
  /\ Bundled \subseteq DOMAIN logs

\* The Rmp rows over it: one Rmp is created, with status submitted and the
\* requester as owner, and the other Rmps stay as they were.
C25_FrameOfRmps ==
  /\ NewRmps = {last'.id}
  /\ rmps'[last'.id].status = "submitted"
  /\ rmps'[last'.id].userId = last'.user
  /\ \A r \in DOMAIN rmps : r \in DOMAIN rmps' /\ rmps'[r] = rmps[r]

\* C25: a submit-unit that creates a Rmp creates exactly one, with status
\* submitted, the requester as owner and the given date as filedDate, and
\* leaves the Log rows and the other Rmps within the frame above.
C25_SubmitFrame ==
  [][(last'.op = "submit" /\ NewRmps # {}) =>
       /\ C25_FrameOfRmps
       /\ rmps'[last'.id].filedDate = last'.filedDate
       /\ C25_FrameOfLogs]_vars

\* the frame without the filedDate
C25_FrameButDate ==
  [][(last'.op = "submit" /\ NewRmps # {}) => C25_FrameOfRmps /\ C25_FrameOfLogs]_vars

\* the filedDate of a date after the year 0099
C25_RecentDateKept ==
  [][(last'.op = "submit" /\ NewRmps # {} /\ last'.filedDate >= FirstCenturyDays) =>
       rmps'[last'.id].filedDate = last'.filedDate]_vars

\* C26: a row created or updated from a body with start and end times and no
\* manualHours has end after start, the end a day later when endTime is
\* before startTime, and the hours from start to end; a row created or updated
\* from a body with manualHours has start equal to end.
C26_EntryTimestamps ==
  [][(last'.op \in {"add", "update"} /\ last'.status = 302) =>
       LET body == last'.body
           row == logs'[last'.id]
       IN IF body.manualHours = NoManual
          THEN /\ row.end > row.start
               /\ row.start = body.workDate * MinutesPerDay + body.startTime
               /\ row.end = body.workDate * MinutesPerDay + body.endTime +
                               (IF body.endTime < body.startTime THEN MinutesPerDay ELSE 0)
               /\ row.hours = cleanNum(row.end - row.start, 60)
          ELSE row.start = row.end]_vars

\* the same, with the end of a timed row at or after its start
C26_EndNotBeforeStart ==
  [][(last'.op \in {"add", "update"} /\ last'.status = 302) =>
       LET body == last'.body
           row == logs'[last'.id]
       IN IF body.manualHours = NoManual
          THEN /\ row.end >= row.start
               /\ row.end = row.start <=> body.endTime = body.startTime
               /\ row.start = body.workDate * MinutesPerDay + body.startTime
               /\ row.end = body.workDate * MinutesPerDay + body.endTime +
                               (IF body.endTime < body.startTime THEN MinutesPerDay ELSE 0)
               /\ row.hours = cleanNum(row.end - row.start, 60)
          ELSE row.start = row.end]_vars

\* C27: a toggle-paid by the owner of the Rmp turns submitted into paid and
\* paid into submitted and changes nothing else, so that a second toggle
\* gives the first status back; a toggle by another user is answered 403 and
\* changes nothing; the status of every Rmp is submitted or paid, and
\* submitted when the Rmp is created.
OtherStatus(st) == IF st = "submitted" THEN "paid" ELSE "submitted"

C27_WitnessOther ==
  /\ last.op = "toggle" /\ last.status = 403
  /\ rmps[last.id].status = "paid" /\ rmps[last.id].userId # last.user

\* C28: an update, delete, toggle-paid or rmp/delete request with a
\* well-formed id that resolves to no row of the user when the request
\* writes (never created, deleted before, or deleted by another request
\* after the handler read it) is answered 404 or with the redirect, never
\* 500, and leaves the Log and Rmp rows as they were.
C28_NotFound ==
  [][/\ (last'.op \in {"update", "delete"} /\ OwnAnyRow(logs, last'.id, last'.user) = {}) =>
          last'.status \in {404, 302} /\ UNCHANGED <<logs, rmps>>
     /\ (last'.op \in {"toggle", "rmpDelete"} /\ last'.id \notin DOMAIN rmps) =>
          last'.status \in {404, 302} /\ UNCHANGED <<logs, rmps>>]_vars

\* the same of the requests that ran with no other request in between
C28_NotFoundSerial ==
  [][pending = <<>> /\ pending' = <<>> =>
       /\ (last'.op \in {"update", "delete"}
             /\ OwnAnyRow(logs, last'.id, last'.user) = {}) =>
            last'.status = 404 /\ UNCHANGED <<logs, rmps>>
       /\ (last'.op \in {"toggle", "rmpDelete"} /\ last'.id \notin DOMAIN rmps) =>
            last'.status = 404 /\ UNCHANGED <<logs, rmps>>]_vars

\* C29: in every state of the page's timer the stop button is enabled only
\* when the status is running or paused, and the startTime is then set; the
\* pause button is enabled only when running; the start button is disabled
\* only when running; a click on stop leaves the status idle, elapsedMs 0
\* and no timerState item in localStorage.
TimerControls(t) ==
  /\ ~t.disabled.stopBtn => t.status \in {"running", "paused"} /\ t.startTime # Null
  /\ ~t.disabled.pauseBtn => t.status = "running"
  /\ t.disabled.startBtn => t.status = "running"

C29_TimerControls ==
  [][/\ TimerControls(timer) /\ TimerControls(timer')
     /\ (timer.status # "idle" /\ timer'.status = "idle") =>
          timer'.elapsedMs = 0 /\ timer'.saved = <<>>
     /\ timer'.status = "idle" => timer'.elapsedMs = 0 /\ timer'.saved = <<>>]_vars

\* the timer was stopped after it was paused, resumed and ran on: it is
\* idle, nothing is saved, the start button alone is enabled
C29_Witness ==
  /\ timer.status = "idle" /\ timer.saved = <<>>
  /\ timer.form # <<>> /\ timer.form[1].start >= 3 /\ timer.form[1].end > timer.form[1].start
  /\ timer.disabled = [startBtn |-> FALSE, pauseBtn |-> TRUE, stopBtn |-> TRUE]

\* a page loaded with a paused timer saved: stop and start are enabled
C29_WitnessLoaded ==
  /\ timer.status = "paused" /\ ~timer.interval
  /\ timer.saved # <<>> /\ timer.saved[1].status = "paused"
  /\ ~timer.disabled.stopBtn /\ ~timer.disabled.startBtn /\ timer.disabled.pauseBtn
  /\ timer.startTime # Null

\* The row a submit-unit has just created: the one unbundled row of the user
\* that findMany did not return; and the row it was split from, the last
\* fetched row that is in the new Rmp.
SplitCreated == Unbundled(logs, last.user) \ RowSet(last.rows)
SplitFrom == last.rows[Cardinality(InRmp(logs, last.id))]

\* C30: when a submit-unit has split a row and the next request deletes the
\* Rmp it created, the user has as many Log rows as before the submit (one
\* fewer than after it), and one unbundled row has the hours the split row
\* had before (the two parts together) with its start, end and note.
C30_SplitReversible ==
  [][(/\ last.op = "submit" /\ last.id \in DOMAIN rmps /\ SplitCreated # {}
      /\ last'.op = "rmpDelete" /\ last'.id = last.id /\ last'.status = 302) =>
       LET e == SplitFrom
           n == CHOOSE x \in SplitCreated : TRUE
       IN /\ Cardinality(OfUser(logs', last.user)) = Cardinality(OfUser(logs, last.user)) - 1
          /\ \E i \in Unbundled(logs', last.user) :
               /\ logs'[i].hours = logs[e].hours + logs[n].hours
               /\ logs'[i].start = logs[e].start /\ logs'[i].end = logs[e].end
               /\ logs'[i].note = logs[e].note]_vars
====
